---------------------------- MODULE Spec2Model ----------------------------
(***************************************************************************)
(* Verification model of src/src/Connection.ts (class Connection): the    *)
(* pattern matcher, the request coordinator with its in-flight cache, the *)
(* two subscription registries and the connection lifecycle.              *)
(*                                                                         *)
(* Strings that are inspected character by character (patterns,           *)
(* identifiers, compiled regular-expression sources) are sequences of     *)
(* one-character strings.  One action is one run-to-completion handler of *)
(* the single-threaded event loop: an API call, a transport event, a      *)
(* timer, an acknowledgement or the continuation of an await.             *)
(***************************************************************************)
EXTENDS Integers, Sequences, FiniteSets, TLC

(***************************************************************************)
(* Bounds of the model.                                                    *)
(***************************************************************************)
\* longest pattern / identifier drawn for the matcher specification
MaxLen == 3

(***************************************************************************)
(* PROGRESS (Connection.ts 11-20).                                         *)
(***************************************************************************)
CONNECTING == 0
CONNECTED == 1
OBJECTS_LOADED == 2
READY == 3

(***************************************************************************)
(* Pattern matcher.  subscribeState and subscribeObject turn the pattern  *)
(* into the source of a RegExp with a chain of String.replace calls and   *)
(* test identifiers with RegExp.test.                                      *)
(***************************************************************************)
\* characters patterns are built from ("*" is the wildcard)
PatternChars == {"a", "b", ".", "*"}
\* characters identifiers are built from
IdChars == {"a", "b", "."}

RECURSIVE SeqsUpTo(_, _)
SeqsUpTo(S, n) ==
    IF n = 0 THEN {<<>>}
    ELSE LET shorter == SeqsUpTo(S, n - 1)
         IN  shorter \cup {Append(s, c) : s \in shorter, c \in S}

\* String.prototype.replace(/ch/g, repl): every occurrence of the character
\* ch is replaced by the characters of repl
RECURSIVE ReplaceAll(_, _, _)
ReplaceAll(s, ch, repl) ==
    IF s = <<>> THEN <<>>
    ELSE (IF Head(s) = ch THEN repl ELSE <<Head(s)>>) \o ReplaceAll(Tail(s), ch, repl)

\* String.prototype.indexOf(ch) !== -1 / String.prototype.includes(ch)
Includes(s, ch) == \E i \in 1..Len(s) : s[i] = ch

\* subscribeState, lines 525-535: the source of the RegExp for pattern id
StateRegSource(id) ==
    LET r1 == ReplaceAll(id, ".", <<"\\", ".">>)
        r2 == ReplaceAll(r1, "*", <<".", "*">>)
        r3 == ReplaceAll(r2, "(", <<"\\", "(">>)
        r4 == ReplaceAll(r3, ")", <<"\\", ")">>)
        r5 == ReplaceAll(r4, "+", <<"\\", "+">>)
        r6 == ReplaceAll(r5, "[", <<"\\", "[">>)
    IN  IF ~Includes(r6, "*") THEN Append(r6, "$") ELSE r6

\* subscribeObject, lines 609-612: the source of the RegExp for pattern id
ObjectRegSource(id) ==
    LET r1 == ReplaceAll(id, ".", <<"\\", ".">>)
        r2 == ReplaceAll(r1, "*", <<".", "*">>)
    IN  IF ~Includes(r2, "*") THEN Append(r2, "$") ELSE r2

\* new RegExp(source): the source read as a sequence of regular-expression
\* atoms.  Over the characters above a source holds escaped characters
\* (backslash + character), ".*", "$" and plain characters.
RECURSIVE RegAtoms(_)
RegAtoms(src) ==
    IF src = <<>> THEN <<>>
    ELSE IF Head(src) = "\\" /\ Len(src) >= 2
         THEN <<[t |-> "lit", c |-> src[2]]>> \o RegAtoms(SubSeq(src, 3, Len(src)))
    ELSE IF Head(src) = "." /\ Len(src) >= 2 /\ src[2] = "*"
         THEN <<[t |-> "anyseq", c |-> ""]>> \o RegAtoms(SubSeq(src, 3, Len(src)))
    ELSE IF Head(src) = "."
         THEN <<[t |-> "any", c |-> ""]>> \o RegAtoms(Tail(src))
    ELSE IF Head(src) = "$"
         THEN <<[t |-> "end", c |-> ""]>> \o RegAtoms(Tail(src))
    ELSE <<[t |-> "lit", c |-> Head(src)]>> \o RegAtoms(Tail(src))

\* the atoms from index k on match the characters of s starting at position i
RECURSIVE AtomsMatchAt(_, _, _, _)
AtomsMatchAt(atoms, k, s, i) ==
    IF k > Len(atoms) THEN TRUE
    ELSE LET a == atoms[k]
         IN  CASE a.t = "lit" ->
                    i <= Len(s) /\ s[i] = a.c /\ AtomsMatchAt(atoms, k + 1, s, i + 1)
               [] a.t = "any" ->
                    i <= Len(s) /\ AtomsMatchAt(atoms, k + 1, s, i + 1)
               [] a.t = "anyseq" ->
                    \E j \in i..(Len(s) + 1) : AtomsMatchAt(atoms, k + 1, s, j)
               [] a.t = "end" ->
                    i = Len(s) + 1 /\ AtomsMatchAt(atoms, k + 1, s, i)

\* RegExp.prototype.test without the sticky flag: the expression may match
\* at any start position of the string
RegTest(src, s) ==
    LET atoms == RegAtoms(src)
    IN  \E i \in 1..(Len(s) + 1) : AtomsMatchAt(atoms, 1, s, i)

VARIABLES
    mPattern,   \* matcher specification: the pattern handed to subscribe
    mId,        \* matcher specification: the identifier of a notification
    mResult     \* matcher specification: what the two compiled matchers answer

matchVars == <<mPattern, mId, mResult>>

NoResult == [tested |-> FALSE, state |-> FALSE, object |-> FALSE]

(***************************************************************************)
(* The Connection object.                                                  *)
(***************************************************************************)
\* most promises request() creates in one behaviour
MaxCalls == 4
\* most acknowledgements outstanding at a time
MaxAcks == 2
\* most continuations waiting at a time
MaxConts == 2
\* most pending 500 ms handshake timers
MaxTimers == 1
\* most loadData() calls running at a time
MaxLoadRuns == 2
\* most change notifications waiting for their setTimeout(0)
MaxQueue == 1

VARIABLES
    props,                \* this.props and the fields the constructor copies from it
    connected,            \* this.connected
    subscribed,           \* this.subscribed
    firstConnect,         \* this.firstConnect
    waitForRestart,       \* this.waitForRestart
    loaded,               \* this.loaded
    objects,              \* this.objects: null or a map from identifier to document
    states,               \* this.states: a map from identifier to state
    systemConfig,         \* this.systemConfig ("" while undefined)
    statesSubscribes,     \* this.statesSubscribes, entries in insertion order
    objectsSubscribes,    \* this.objectsSubscribes, entries in insertion order
    onConnectionHandlers, \* this.onConnectionHandlers
    promises,             \* this._promises: cache key -> promise
    outcomes,             \* the promises request() created, by identity
    acks,                 \* acknowledgement callbacks handed to socket.emit, not yet called
    conts,                \* continuations (then / catch / await) attached to promises
    waitResolved,         \* this._waitForFirstConnection is resolved
    reloaded,             \* window.location.reload() was called: the page is gone
    readyCalled,          \* props.onReady was called
    wire,                 \* the backend's side of this transport session: the patterns
                          \* whose last wire message is a subscribe
    lastConnection,       \* the last flag each connection-state callback was called with
    hsTimers,             \* pending 500 ms timers of the connect handler
    loadRuns,             \* running loadData() calls: the attempt each one waits in
    notifQ,               \* setTimeout(..., 0) tasks of the change handlers, in order
    progress,             \* the last value handed to props.onProgress
    out,                  \* what the last handler did: emits and callbacks, in order
    ret,                  \* what the last request() call returned
    ev,                   \* the last handler that ran
    link                  \* the transport: which events of the session were delivered

connVars == <<props, connected, subscribed, firstConnect, waitForRestart, loaded,
              objects, states, systemConfig, statesSubscribes, objectsSubscribes,
              onConnectionHandlers, promises, outcomes, acks, conts, waitResolved,
              reloaded, readyCalled, wire, lastConnection, hsTimers, loadRuns, notifQ, progress, out, ret, ev>>

vars == <<matchVars, connVars, link>>

\* ERRORS (Connection.ts 22-28)
NOT_CONNECTED == "notConnectedError"
TIMEOUT == "timeout"
NOT_ADMIN == "Allowed only in admin"
NOT_SUPPORTED == "Not supported"
\* an error reported by the backend in an acknowledgement
BACKEND_ERROR == "backendError"

\* the identifier "system.config", kept as one token
SystemConfigId == <<"system.config">>

\* an empty JavaScript object used as a map
EmptyMap == [x \in {} |-> ""]
MapSet(m, k, v) == [x \in (DOMAIN m) \cup {k} |-> IF x = k THEN v ELSE m[x]]
MapDelete(m, k) == [x \in (DOMAIN m) \ {k} |-> m[x]]

\* one observable effect of a handler: t is "emit" (socket.emit), "progress"
\* (props.onProgress), "call" (a subscriber or connection callback), "ready",
\* "error" (onError), "resolve" (a promise resolver) or "reload"; n names the event or the registry, a is the
\* pattern or identifier, k a number (progress value, callback)
\* x carries the third argument of an object callback
EffX(t, n, a, k, x) == [t |-> t, n |-> n, a |-> a, k |-> k, x |-> x]
Eff(t, n, a, k) == EffX(t, n, a, k, "")
Emit(n, a) == Eff("emit", n, a, 0)

NoRet == [call |-> "", key |-> "", force |-> FALSE, arg |-> "", how |-> "", p |-> 0, err |-> ""]

\* a transport session in which nothing is subscribed
NoWire == [states |-> {}, objects |-> {}]

\* the state a handler works on, and the state it leaves
Cur ==
    [props |-> props, connected |-> connected, subscribed |-> subscribed,
     firstConnect |-> firstConnect, waitForRestart |-> waitForRestart,
     loaded |-> loaded, objects |-> objects, states |-> states,
     systemConfig |-> systemConfig,
     statesSubscribes |-> statesSubscribes, objectsSubscribes |-> objectsSubscribes,
     onConnectionHandlers |-> onConnectionHandlers, promises |-> promises,
     outcomes |-> outcomes, acks |-> acks, conts |-> conts,
     waitResolved |-> waitResolved, reloaded |-> reloaded,
     readyCalled |-> readyCalled, wire |-> wire, hsTimers |-> hsTimers,
     loadRuns |-> loadRuns, notifQ |-> notifQ, progress |-> progress,
     out |-> <<>>, ret |-> NoRet]

RECURSIVE WireAfter(_, _)
\* what the backend holds after the emits of o: "subscribe" and
\* "subscribeObjects" add a pattern, "unsubscribe" and "unsubscribeObjects"
\* remove it
WireAfter(w, o) ==
    IF o = <<>> THEN w
    ELSE LET e == Head(o)
             w1 == IF e.t # "emit" THEN w
                   ELSE CASE e.n = "subscribe" -> [w EXCEPT !.states = @ \cup {e.a}]
                          [] e.n = "unsubscribe" -> [w EXCEPT !.states = @ \ {e.a}]
                          [] e.n = "subscribeObjects" -> [w EXCEPT !.objects = @ \cup {e.a}]
                          [] e.n = "unsubscribeObjects" -> [w EXCEPT !.objects = @ \ {e.a}]
                          [] OTHER -> w
         IN  WireAfter(w1, Tail(o))

RECURSIVE ConnectionAfter(_, _)
\* the last flag each connection-state callback has seen after the calls of o
ConnectionAfter(l, o) ==
    IF o = <<>> THEN l
    ELSE LET e == Head(o)
             l1 == IF e.t = "call" /\ e.n \in {"connection:true", "connection:false"}
                   THEN [l EXCEPT ![e.k] = e.n] ELSE l
         IN  ConnectionAfter(l1, Tail(o))

Commit(S, name) ==
    /\ props' = S.props
    /\ connected' = S.connected
    /\ subscribed' = S.subscribed
    /\ firstConnect' = S.firstConnect
    /\ waitForRestart' = S.waitForRestart
    /\ loaded' = S.loaded
    /\ objects' = S.objects
    /\ states' = S.states
    /\ systemConfig' = S.systemConfig
    /\ statesSubscribes' = S.statesSubscribes
    /\ objectsSubscribes' = S.objectsSubscribes
    /\ onConnectionHandlers' = S.onConnectionHandlers
    /\ promises' = S.promises
    /\ outcomes' = S.outcomes
    /\ acks' = S.acks
    /\ conts' = S.conts
    /\ waitResolved' = S.waitResolved
    /\ reloaded' = S.reloaded
    /\ readyCalled' = S.readyCalled
    /\ wire' = WireAfter(S.wire, S.out)
    /\ lastConnection' = ConnectionAfter(lastConnection, S.out)
    /\ hsTimers' = S.hsTimers
    /\ loadRuns' = S.loadRuns
    /\ notifQ' = S.notifQ
    /\ progress' = S.progress
    /\ out' = S.out
    /\ ret' = S.ret
    /\ ev' = name
    /\ UNCHANGED matchVars

\* props.onProgress?.(v)
OnProgress(S, v) ==
    [S EXCEPT !.progress = v, !.out = Append(@, Eff("progress", "onProgress", <<>>, v))]

\* this.onError(error)
OnError(S, what) == [S EXCEPT !.out = Append(@, Eff("error", what, <<>>, 0))]

(***************************************************************************)
(* Request coordinator: request(), lines 723-790.                          *)
(***************************************************************************)
\* the options of one request() call; op names the executor
Opt(op, key, force, admin, feats, arg) ==
    [op |-> op, key |-> key, force |-> force, admin |-> admin, feats |-> feats, arg |-> arg,
     timeout |-> FALSE]

\* the same call with commandTimeout other than false: line 767 arms a timer
Timed(opt) == [opt EXCEPT !.timeout = TRUE]

NoOpt == Opt("", "", FALSE, FALSE, <<>>, "")

\* a continuation: kind says what runs, on is the promise it waits for
\* (0: the call was rejected before a promise was created, with error err)
Cont(kind, on, err, opt, i) == [kind |-> kind, on |-> on, err |-> err, opt |-> opt, i |-> i]

\* the event an executor emits, by executor
WireName(op) ==
    CASE op = "getSystemConfig" -> "getObject"
      [] op = "setSystemConfig" -> "setObject"
      [] OTHER -> op

\* lines 759-789: the promise is created, the executor runs at once and the
\* promise is stored under the cache key
StartExecutor(S, opt) ==
    LET p == Len(S.outcomes) + 1
        \* getObjects (lines 905-908) answers from the mirror without emitting
        local == opt.op = "getObjects" /\ opt.arg # "update" /\ ~S.objects.isNull
        \* an executor that neither emits nor settles
        silent == opt.op = "never"
        rec == [st |-> IF local THEN "ok" ELSE "pending", val |-> "",
                key |-> opt.key, force |-> opt.force, op |-> opt.op, arg |-> opt.arg,
                \* lines 766-777: the timer of the call
                timer |-> IF opt.timeout THEN "armed" ELSE "none"]
    IN  [S EXCEPT
            !.outcomes = Append(@, rec),
            !.out = IF local \/ silent THEN @
                    ELSE Append(@, Emit(WireName(opt.op), <<opt.arg>>)),
            !.acks = IF local \/ silent THEN @
                     ELSE Append(@, [op |-> opt.op, p |-> p, a |-> <<opt.arg>>]),
            !.promises = IF opt.key # "" THEN MapSet(@, opt.key, p) ELSE @,
            !.ret = [call |-> opt.op, key |-> opt.key, force |-> opt.force,
                     arg |-> opt.arg, how |-> "started", p |-> p, err |-> ""]]

Rejected(S, opt, err) ==
    [S EXCEPT !.ret = [call |-> opt.op, key |-> opt.key, force |-> opt.force,
                       arg |-> opt.arg, how |-> "rejected", p |-> 0, err |-> err]]

\* the gates with the connection check ahead of the cache lookup
GateConnectedFirst(S, opt) ==
    IF opt.admin /\ S.props.isWeb THEN "notAdmin"
    ELSE IF ~S.connected THEN "notConnected"
    ELSE IF opt.key # "" /\ ~opt.force /\ opt.key \in DOMAIN S.promises THEN "cached"
    ELSE "go"

\* the gates without the connection check
GateNoConnectionCheck(S, opt) ==
    IF opt.admin /\ S.props.isWeb THEN "notAdmin"
    ELSE IF opt.key # "" /\ ~opt.force /\ opt.key \in DOMAIN S.promises THEN "cached"
    ELSE "go"

\* lines 735-748: the admin gate, the cache lookup and the connection check;
\* "go" means the call passed all three
Gate(S, opt) ==
    IF opt.admin /\ S.props.isWeb THEN "notAdmin"
    ELSE IF opt.key # "" /\ ~opt.force /\ opt.key \in DOMAIN S.promises THEN "cached"
    ELSE IF ~S.connected THEN "notConnected"
    ELSE "go"

FromCache(S, opt) ==
    [S EXCEPT !.ret = [call |-> opt.op, key |-> opt.key, force |-> opt.force,
                       arg |-> opt.arg, how |-> "cached", p |-> S.promises[opt.key],
                       err |-> ""]]

\* request() of a call without requireFeatures: it runs to its return
\* statement without suspending
RequestPlain(S, opt) ==
    LET g == Gate(S, opt)
    IN  CASE g = "notAdmin" -> Rejected(S, opt, NOT_ADMIN)
          [] g = "cached" -> FromCache(S, opt)
          [] g = "notConnected" -> Rejected(S, opt, NOT_CONNECTED)
          [] OTHER -> StartExecutor(S, opt)

\* checkFeatureSupported(feature), lines 1781-1798
FeatureKey(f) == "supportedFeatures_" \o f
FeatureOpt(f, update) == Opt("checkFeatureSupported", FeatureKey(f), update, FALSE, <<>>, f)

\* lines 752-753: `await this.checkFeatureSupported(feats[i])`: the check is
\* issued and request() suspends until its promise settles
AwaitFeature(S, opt, i) ==
    LET T == RequestPlain(S, FeatureOpt(opt.feats[i], FALSE))
        on == T.ret.p
    IN  [T EXCEPT
            !.conts = Append(@, Cont("feature", on, T.ret.err, opt, i)),
            !.ret = [call |-> opt.op, key |-> opt.key, force |-> opt.force,
                     arg |-> opt.arg, how |-> "suspended", p |-> 0, err |-> ""]]

\* request(), lines 723-790, up to its first suspension
Request(S, opt) ==
    LET g == Gate(S, opt)
    IN  CASE g = "notAdmin" -> Rejected(S, opt, NOT_ADMIN)
          [] g = "cached" -> FromCache(S, opt)
          [] g = "notConnected" -> Rejected(S, opt, NOT_CONNECTED)
          [] OTHER -> IF Len(opt.feats) > 0 THEN AwaitFeature(S, opt, 1)
                      ELSE StartExecutor(S, opt)

\* the loop of lines 752-757 without the throw of line 754
ResumeRequestNoThrow(S, c) ==
    LET opt == c.opt
    IN  IF c.on = 0 THEN Rejected(S, opt, c.err)
        ELSE IF S.outcomes[c.on].st = "err" THEN Rejected(S, opt, S.outcomes[c.on].val)
        ELSE IF c.i < Len(opt.feats) THEN AwaitFeature(S, opt, c.i + 1)
        ELSE StartExecutor(S, opt)

\* lines 752-757 after the await: the feature check c.opt.feats[c.i] settled
ResumeRequest(S, c) ==
    LET opt == c.opt
    IN  IF c.on = 0 THEN Rejected(S, opt, c.err)
        ELSE IF S.outcomes[c.on].st = "err" THEN Rejected(S, opt, S.outcomes[c.on].val)
        ELSE IF S.outcomes[c.on].val # "yes" THEN Rejected(S, opt, NOT_SUPPORTED)
        ELSE IF c.i < Len(opt.feats) THEN AwaitFeature(S, opt, c.i + 1)
        ELSE StartExecutor(S, opt)

\* a promise that could be settled again
SettleOverwrites(S, p, st, val) ==
    [S EXCEPT !.outcomes[p].st = st, !.outcomes[p].val = val]

\* a promise is settled; settling a settled promise changes nothing
Settle(S, p, st, val) ==
    IF S.outcomes[p].st # "pending" THEN S
    ELSE [S EXCEPT !.outcomes[p].st = st, !.outcomes[p].val = val]

\* a timer that calls onTimeout and leaves out the reject of line 772
OnRequestTimeoutNoReject(S, p) ==
    [S EXCEPT !.outcomes[p].timer = "elapsed",
              !.out = Append(@, Eff("call", "onTimeout", <<>>, p))]

\* lines 768-773: the timer of promise p elapses
OnRequestTimeout(S, p) ==
    LET S1 == [S EXCEPT !.outcomes[p].timer = "elapsed",
                        !.out = Append(@, Eff("call", "onTimeout", <<>>, p))]
    IN  Settle(S1, p, "err", TIMEOUT)

\* a continuation can run: its promise is settled
Runnable(c) == IF c.on = 0 THEN TRUE ELSE outcomes[c.on].st # "pending"

\* the promise a continuation waited for was rejected
Failed(S, c) == IF c.on = 0 THEN TRUE ELSE S.outcomes[c.on].st = "err"

\* the microtask queue is not empty: no timer and no transport event runs
MicrotaskReady == \E i \in 1..Len(conts) : Runnable(conts[i])

RemoveAt(s, i) == SubSeq(s, 1, i - 1) \o SubSeq(s, i + 1, Len(s))


(***************************************************************************)
(* Subscription registries.  An entry is {id, reg, cbs}; Object.keys      *)
(* enumerates the entries in insertion order.                              *)
(***************************************************************************)
Entry(id, reg, cbs) == [id |-> id, reg |-> reg, cbs |-> cbs]

\* the index of the entry of pattern id, 0 when there is none
Find(registry, id) ==
    IF \E i \in 1..Len(registry) : registry[i].id = id
    THEN CHOOSE i \in 1..Len(registry) : registry[i].id = id
    ELSE 0

\* Array.prototype.includes / indexOf
IndexOf(s, x) ==
    IF \E i \in 1..Len(s) : s[i] = x
    THEN CHOOSE i \in 1..Len(s) : s[i] = x /\ \A j \in 1..(i - 1) : s[j] # x
    ELSE 0

RECURSIVE EmitEach(_, _, _)
\* ids.forEach((id) => this._socket.emit(name, id))
EmitEach(o, name, ids) ==
    IF ids = <<>> THEN o
    ELSE EmitEach(Append(o, Emit(name, Head(ids))), name, Tail(ids))

Keys(registry) == [i \in 1..Len(registry) |-> registry[i].id]

\* _subscribe(true) that leaves out the autoSubscribes loop of lines 930-932
SubscribeWithoutAuto(S, isEnable) ==
    IF isEnable /\ ~S.subscribed
    THEN [S EXCEPT !.subscribed = TRUE,
                   !.out = EmitEach(EmitEach(@, "subscribeObjects", Keys(S.objectsSubscribes)),
                                    "subscribe", Keys(S.statesSubscribes))]
    ELSE S

\* _subscribe(isEnable), lines 928-961
Subscribe(S, isEnable) ==
    IF isEnable /\ ~S.subscribed
    THEN LET o1 == EmitEach(S.out, "subscribeObjects", S.props.autoSubscribes)
             o2 == EmitEach(o1, "subscribeObjects", Keys(S.objectsSubscribes))
             o3 == IF S.props.autoSubscribeLog
                   THEN Append(o2, Emit("requireLog", <<"true">>)) ELSE o2
             o4 == EmitEach(o3, "subscribe", Keys(S.statesSubscribes))
         IN  [S EXCEPT !.subscribed = TRUE, !.out = o4]
    ELSE IF ~isEnable /\ S.subscribed
    THEN LET o1 == EmitEach(S.out, "unsubscribeObjects", S.props.autoSubscribes)
             o2 == EmitEach(o1, "unsubscribeObjects", Keys(S.objectsSubscribes))
             o3 == IF S.props.autoSubscribeLog
                   THEN Append(o2, Emit("requireLog", <<"false">>)) ELSE o2
             o4 == EmitEach(o3, "unsubscribe", Keys(S.statesSubscribes))
         IN  [S EXCEPT !.subscribed = FALSE, !.out = o4]
    ELSE S

RECURSIVE CallEach(_, _, _, _)
\* cbs.forEach((cb) => cb(...)): one "call" effect per callback, in order
CallEach(o, n, a, cbs) ==
    IF cbs = <<>> THEN o
    ELSE CallEach(Append(o, Eff("call", n, a, Head(cbs))), n, a, Tail(cbs))

\* this.onConnectionHandlers.forEach((cb) => cb(flag))
NotifyConnection(S, flag) ==
    [S EXCEPT !.out = CallEach(@, IF flag THEN "connection:true" ELSE "connection:false",
                               <<>>, S.onConnectionHandlers)]

\* registerConnectionHandler(handler), lines 1139-1143
RegisterConnectionHandler(S, cb) ==
    IF IndexOf(S.onConnectionHandlers, cb) = 0
    THEN [S EXCEPT !.onConnectionHandlers = Append(@, cb)]
    ELSE S

\* unregisterConnectionHandler(handler), lines 1149-1152
UnregisterConnectionHandler(S, cb) ==
    LET pos == IndexOf(S.onConnectionHandlers, cb)
    IN  IF pos # 0 THEN [S EXCEPT !.onConnectionHandlers = RemoveAt(@, pos)] ELSE S

\* subscribeState(id, cb), lines 514-569 (binary = false)
SubscribeState(S, id, cb) ==
    LET i == Find(S.statesSubscribes, id)
        T == IF i = 0
             THEN [S EXCEPT
                     !.statesSubscribes = Append(@, Entry(id, StateRegSource(id), <<cb>>)),
                     !.out = IF S.connected THEN Append(@, Emit("subscribe", id)) ELSE @]
             ELSE IF IndexOf(S.statesSubscribes[i].cbs, cb) = 0
             THEN [S EXCEPT !.statesSubscribes[i].cbs = Append(@, cb)]
             ELSE S
    IN  \* lines 545-568: the initial value is read; its acknowledgement calls cb
        IF T.connected
        THEN [T EXCEPT !.out = Append(@, Emit("getForeignStates", id)),
                       !.acks = Append(@, [op |-> "getForeignStates", p |-> cb, a |-> id])]
        ELSE T

\* lines 580-597 without the emit of line 594
UnsubscribeStateSilent(S, id, cb) ==
    LET i == Find(S.statesSubscribes, id)
    IN  IF i = 0 THEN S
        ELSE LET old == S.statesSubscribes[i].cbs
                 pos == IndexOf(old, cb)
                 cbs == IF cb # 0 THEN (IF pos # 0 THEN RemoveAt(old, pos) ELSE old)
                        ELSE <<>>
             IN  IF Len(cbs) = 0
                 THEN [S EXCEPT !.statesSubscribes = RemoveAt(@, i)]
                 ELSE [S EXCEPT !.statesSubscribes[i].cbs = cbs]

\* unsubscribeState(id, cb?), lines 580-597; cb = 0 stands for no callback given
UnsubscribeState(S, id, cb) ==
    LET i == Find(S.statesSubscribes, id)
    IN  IF i = 0 THEN S
        ELSE LET old == S.statesSubscribes[i].cbs
                 pos == IndexOf(old, cb)
                 cbs == IF cb # 0 THEN (IF pos # 0 THEN RemoveAt(old, pos) ELSE old)
                        ELSE <<>>
             IN  IF Len(cbs) = 0
                 THEN [S EXCEPT
                         !.statesSubscribes = RemoveAt(@, i),
                         !.out = IF S.connected THEN Append(@, Emit("unsubscribe", id)) ELSE @]
                 ELSE [S EXCEPT !.statesSubscribes[i].cbs = cbs]

\* subscribeObject(id, cb) without the `includes` test of line 617
SubscribeObjectNoIncludes(S, id, cb) ==
    LET i == Find(S.objectsSubscribes, id)
    IN  IF i = 0
        THEN [S EXCEPT
                !.objectsSubscribes = Append(@, Entry(id, ObjectRegSource(id), <<cb>>)),
                !.out = IF S.connected THEN Append(@, Emit("subscribeObjects", id)) ELSE @]
        ELSE [S EXCEPT !.objectsSubscribes[i].cbs = Append(@, cb)]

\* subscribeObject(id, cb), lines 604-621
SubscribeObject(S, id, cb) ==
    LET i == Find(S.objectsSubscribes, id)
    IN  IF i = 0
        THEN [S EXCEPT
                !.objectsSubscribes = Append(@, Entry(id, ObjectRegSource(id), <<cb>>)),
                !.out = IF S.connected THEN Append(@, Emit("subscribeObjects", id)) ELSE @]
        ELSE IF IndexOf(S.objectsSubscribes[i].cbs, cb) = 0
        THEN [S EXCEPT !.objectsSubscribes[i].cbs = Append(@, cb)]
        ELSE S

\* unsubscribeObject(id, cb), lines 632-654; cb = 0 stands for no callback given
UnsubscribeObject(S, id, cb) ==
    LET i == Find(S.objectsSubscribes, id)
    IN  IF i = 0 THEN S
        ELSE LET old == S.objectsSubscribes[i].cbs
                 pos == IndexOf(old, cb)
                 cbs == IF cb # 0 THEN (IF pos # 0 THEN RemoveAt(old, pos) ELSE old)
                        ELSE <<>>
             IN  IF S.connected /\ Len(cbs) = 0
                 THEN [S EXCEPT
                         !.objectsSubscribes = RemoveAt(@, i),
                         !.out = Append(@, Emit("unsubscribeObjects", id))]
                 ELSE [S EXCEPT !.objectsSubscribes[i].cbs = cbs]


(***************************************************************************)
(* Change notifications.  A document is {type, _rev}; rev 0 stands for a  *)
(* document without _rev, NullDoc for null.                                *)
(***************************************************************************)
Doc(type, rev) == [type |-> type, rev |-> rev]
NullDoc == Doc("null", 0)
NullObjects == [isNull |-> TRUE, m |-> EmptyMap]
Mirror(m) == [isNull |-> FALSE, m |-> m]

RECURSIVE FanOut(_, _, _, _, _, _)
\* the loop over the registry of objectChange (693-699) and stateChange
\* (712-719): byId says whether an entry also matches when its pattern
\* equals the identifier
FanOut(o, registry, n, id, x, byId) ==
    IF registry = <<>> THEN o
    ELSE LET e == Head(registry)
             hit == (byId /\ e.id = id) \/ RegTest(e.reg, id)
             o1 == IF hit
                   THEN o \o [i \in 1..Len(e.cbs) |-> EffX("call", n, id, e.cbs[i], x)]
                   ELSE o
         IN  FanOut(o1, Tail(registry), n, id, x, byId)

\* objectChange(id, obj), lines 661-704
ObjectChange(S, id, obj) ==
    IF S.objects.isNull THEN S
    ELSE LET m == S.objects.m
             has == id \in DOMAIN m
             \* lines 672-674: the revision of the stored document is stamped
             m1 == IF obj # NullDoc /\ obj.rev # 0 /\ has
                   THEN [m EXCEPT ![id].rev = obj.rev] ELSE m
             oldObj == IF has THEN m[id].type ELSE ""
             changed == IF obj # NullDoc THEN (IF has THEN m1[id] # obj ELSE TRUE) ELSE has
             m2 == IF obj # NullDoc
                   THEN (IF changed THEN MapSet(m1, id, obj) ELSE m1)
                   ELSE (IF has THEN MapDelete(m, id) ELSE m)
             o1 == FanOut(S.out, S.objectsSubscribes, "object", id, oldObj, TRUE)
             o2 == IF changed /\ S.props.onObjectChange
                   THEN Append(o1, Eff("call", "onObjectChange", id, 0)) ELSE o1
         IN  [S EXCEPT !.objects = Mirror(m2), !.out = o2]

\* stateChange(id, state), lines 711-720
StateChange(S, id) ==
    [S EXCEPT !.out = FanOut(@, S.statesSubscribes, "state", id, "", FALSE)]

(***************************************************************************)
(* Connection lifecycle.                                                   *)
(***************************************************************************)
\* maxAttempts of loadData, line 404
MaxAttempts == 10

GetSystemConfigOpt(update) ==
    Opt("getSystemConfig", "systemConfig", update, FALSE, <<>>, "system.config")
SetSystemConfigOpt(obj) == Opt("setSystemConfig", "systemConfig", FALSE, FALSE, <<>>, obj)
GetCompactSystemConfigOpt(update) ==
    Opt("getCompactSystemConfig", "systemConfigCommon", update, TRUE, <<>>, "")
GetVersionOpt == Opt("getVersion", "version", FALSE, FALSE, <<>>, "")
\* getStates(), lines 796-812
GetStatesOpt == Opt("getStates", "", FALSE, FALSE, <<>>, "")
GetObjectsOpt(update) ==
    Opt("getObjects", "", FALSE, FALSE, <<>>, IF update THEN "update" ELSE "")

\* the callback onConnect hands to _getUserPermissions, lines 416-485, up to
\* the point where it waits for the system configuration
AfterPermissions(S, err) ==
    IF err THEN OnError(S, "Cannot read user permissions")
    ELSE IF ~S.props.doNotLoadACL /\ S.loaded THEN S
    ELSE LET S1 == IF ~S.props.doNotLoadACL
                   THEN [OnProgress([S EXCEPT !.loaded = TRUE], CONNECTED)
                            EXCEPT !.firstConnect = FALSE]
                   ELSE S
             T == RequestPlain(S1, IF S1.props.admin5only /\ ~S1.props.isWeb
                                   THEN GetCompactSystemConfigOpt(FALSE)
                                   ELSE GetSystemConfigOpt(FALSE))
         IN  [T EXCEPT !.conts = Append(@, Cont("boot", T.ret.p, T.ret.err, NoOpt, 0))]

\* onConnect() with _getUserPermissions(cb), lines 393-399 and 415-416
OnConnect(S) ==
    IF S.props.doNotLoadACL THEN AfterPermissions(S, FALSE)
    ELSE [S EXCEPT !.out = Append(@, Emit("getUserPermissions", <<>>)),
                   !.acks = Append(@, [op |-> "getUserPermissions", p |-> 0, a |-> <<>>])]

\* loadData(), lines 402-407, up to the first `await wait(1000)`
LoadData(S) ==
    IF S.loaded THEN S
    ELSE [OnConnect(S) EXCEPT !.loadRuns = Append(@, 1)]

\* lines 405-409 as a loop without the bound i <= maxAttempts
LoadDataWakeUnbounded(S, r) ==
    IF S.loaded
    THEN [S EXCEPT !.loadRuns = RemoveAt(@, r)]
    ELSE [OnConnect(S) EXCEPT !.loadRuns[r] = @ + 1]

\* loadData() after the wait of run r, lines 408-409 and the next iteration
LoadDataWake(S, r) ==
    IF S.loaded \/ S.loadRuns[r] >= MaxAttempts
    THEN [S EXCEPT !.loadRuns = RemoveAt(@, r)]
    ELSE [OnConnect(S) EXCEPT !.loadRuns[r] = @ + 1]

\* props.onReady?.(this.objects), lines 472-473 and 480
OnReady(S) ==
    [S EXCEPT !.out = Append(@, Eff("ready", "onReady", <<>>, 0)),
              !.readyCalled = TRUE]

\* lines 437-484 without the check of this.loaded at lines 439-441
BootThenUnguarded(S, c) ==
    IF Failed(S, c)
    THEN OnError(S, "Cannot read system config")
    ELSE LET data == S.outcomes[c.on].val
             S1 == IF S.props.doNotLoadACL
                   THEN [OnProgress([S EXCEPT !.loaded = TRUE], CONNECTED)
                            EXCEPT !.firstConnect = FALSE]
                   ELSE S
             S2 == [S1 EXCEPT !.systemConfig = data]
         IN  IF ~S2.props.doNotLoadAllObjects
             THEN LET T == RequestPlain(S2, GetObjectsOpt(FALSE))
                  IN  [T EXCEPT !.conts = Append(@, Cont("objects", T.ret.p, T.ret.err, NoOpt, 0))]
             ELSE LET S3 == [S2 EXCEPT !.objects =
                                IF S2.props.admin5only THEN Mirror(EmptyMap)
                                ELSE Mirror(MapSet(EmptyMap, SystemConfigId, Doc(data, 0)))]
                  IN  OnReady(OnProgress(S3, READY))

\* the .then / .catch of the system configuration read, lines 437-484
BootThen(S, c) ==
    IF Failed(S, c)
    THEN OnError(S, "Cannot read system config")
    ELSE IF S.props.doNotLoadACL /\ S.loaded THEN S
    ELSE LET data == S.outcomes[c.on].val
             S1 == IF S.props.doNotLoadACL
                   THEN [OnProgress([S EXCEPT !.loaded = TRUE], CONNECTED)
                            EXCEPT !.firstConnect = FALSE]
                   ELSE S
             S2 == [S1 EXCEPT !.systemConfig = data]
         IN  IF ~S2.props.doNotLoadAllObjects
             THEN LET T == RequestPlain(S2, GetObjectsOpt(FALSE))
                  IN  [T EXCEPT !.conts = Append(@, Cont("objects", T.ret.p, T.ret.err, NoOpt, 0))]
             ELSE LET S3 == [S2 EXCEPT !.objects =
                                IF S2.props.admin5only THEN Mirror(EmptyMap)
                                ELSE Mirror(MapSet(EmptyMap, SystemConfigId, Doc(data, 0)))]
                  IN  OnReady(OnProgress(S3, READY))

\* the .then of getObjects() in onConnect, lines 470-474; a rejection goes
\* to the .catch of line 484
ObjectsThen(S, c) ==
    IF Failed(S, c)
    THEN OnError(S, "Cannot read system config")
    ELSE OnReady(OnProgress(S, READY))

\* lines 368-371 with a resolver that is kept after its first call
ResolveFirstConnectionAgain(S) ==
    [S EXCEPT !.waitResolved = TRUE,
              !.out = Append(@, Eff("resolve", "waitForFirstConnection", <<>>, 0))]

\* lines 368-371: the first-connection promise is resolved and the resolver
\* dropped
ResolveFirstConnection(S) ==
    IF S.waitResolved THEN S
    ELSE [S EXCEPT !.waitResolved = TRUE,
                   !.out = Append(@, Eff("resolve", "waitForFirstConnection", <<>>, 0))]

\* connection.waitForRestart = flag: the public field of line 128
SetWaitForRestart(S, flag) == [S EXCEPT !.waitForRestart = flag]

\* lines 346-372 without the check of this.waitForRestart at line 355
OnPreConnectNoRestart(S, isOk) ==
    LET S1 == [S EXCEPT !.connected = TRUE]
        A == IF S1.firstConnect THEN LoadData(S1) ELSE OnProgress(S1, READY)
    IN  ResolveFirstConnection(NotifyConnection(Subscribe(A, TRUE), TRUE))

\* onPreConnect(isOk, isSecure), lines 346-372
OnPreConnect(S, isOk) ==
    LET S1 == [S EXCEPT !.connected = TRUE]
        S2 == IF S1.waitForRestart
              THEN [S1 EXCEPT !.reloaded = TRUE,
                              !.out = Append(@, Eff("reload", "window.location.reload", <<>>, 0))]
              ELSE LET A == IF S1.firstConnect THEN LoadData(S1) ELSE OnProgress(S1, READY)
                   IN  NotifyConnection(Subscribe(A, TRUE), TRUE)
    IN  ResolveFirstConnection(S2)

\* the "connect" handler, lines 228-260
OnSocketConnect(S, noTimeout) ==
    IF ~noTimeout THEN [S EXCEPT !.hsTimers = @ + 1]
    ELSE [S EXCEPT !.out = Append(@, Emit("authenticate", <<>>)),
                   !.acks = Append(@, [op |-> "authenticate", p |-> 0, a |-> <<>>])]

\* the timer callback of lines 232-252 up to the .then
OnSettled(S) ==
    LET T == RequestPlain([S EXCEPT !.hsTimers = @ - 1], GetVersionOpt)
    IN  [T EXCEPT !.conts = Append(@, Cont("version", T.ret.p, T.ret.err, NoOpt, 0))]

\* the .then of getVersion(), lines 233-251; a rejected getVersion() has no
\* handler and nothing runs.  The version is "old" below 4.1.2, else "new".
VersionThen(S, c) ==
    IF Failed(S, c) THEN S
    ELSE IF S.outcomes[c.on].val = "old" THEN OnPreConnect(S, FALSE)
    ELSE [S EXCEPT !.out = Append(@, Emit("authenticate", <<>>)),
                   !.acks = Append(@, [op |-> "authenticate", p |-> 0, a |-> <<>>])]

\* lines 262-272 without the call of _subscribe(true)
OnSocketReconnectNoSubscribe(S) ==
    LET S1 == [OnProgress(S, READY) EXCEPT !.connected = TRUE]
    IN  IF S1.waitForRestart
        THEN [S1 EXCEPT !.reloaded = TRUE,
                        !.out = Append(@, Eff("reload", "window.location.reload", <<>>, 0))]
        ELSE NotifyConnection(S1, TRUE)

\* the "reconnect" handler, lines 262-272
OnSocketReconnect(S) ==
    LET S1 == [OnProgress(S, READY) EXCEPT !.connected = TRUE]
    IN  IF S1.waitForRestart
        THEN [S1 EXCEPT !.reloaded = TRUE,
                        !.out = Append(@, Eff("reload", "window.location.reload", <<>>, 0))]
        ELSE NotifyConnection(Subscribe(S1, TRUE), TRUE)

\* a "disconnect" handler that leaves this.subscribed as it is
OnSocketDisconnectKeepsSubscribed(S) ==
    NotifyConnection(OnProgress([S EXCEPT !.connected = FALSE], CONNECTING), FALSE)

\* the "disconnect" handler, lines 274-279
OnSocketDisconnect(S) ==
    NotifyConnection(OnProgress([S EXCEPT !.connected = FALSE, !.subscribed = FALSE],
                                CONNECTING), FALSE)


(***************************************************************************)
(* Inputs.                                                                 *)
(***************************************************************************)
\* patterns the application subscribes to
Patterns == {<<"a">>, <<"a", ".", "*">>}
\* identifiers of incoming change notifications
Ids == {<<"a">>, <<"a", ".", "a">>, <<"b">>}
\* subscriber callbacks
Callbacks == {1, 2}
\* payloads of object change notifications
Payloads == {NullDoc, Doc("t1", 1)}
\* cache keys of application requests, features they may require
Keys_ == {"k"}
Features == {"f"}
\* arguments of setSystemConfig
Configs == {"o1", "o2"}
\* states carried by state change notifications
StateValues == {"s2"}

\* values the backend hands to an acknowledgement callback, by request
AckResults(op) ==
    CASE op = "authenticate" -> {"ok", "notOk"}
      [] op = "getVersion" -> {"old", "new", "err"}
      [] op = "checkFeatureSupported" -> {"yes", "no", "err"}
      [] OTHER -> {"ok", "err"}

\* the model stays inside its bounds
Within(S) ==
    /\ Len(S.outcomes) <= MaxCalls
    /\ Len(S.acks) <= MaxAcks
    /\ Len(S.conts) <= MaxConts
    /\ S.hsTimers <= MaxTimers
    /\ Len(S.loadRuns) <= MaxLoadRuns
    /\ Len(S.notifQ) <= MaxQueue

\* a handler runs: application calls may come at any point of a turn, timers
\* and transport events only when no continuation is waiting to run
Step(S, name) == ~reloaded /\ Within(S) /\ Commit(S, name)
Api(S, name) == Step(S, name) /\ UNCHANGED link
Task(S, name) == ~MicrotaskReady /\ Step(S, name) /\ UNCHANGED link

LinkUp == link \in {"upFirst", "upC", "upR", "upCR"}

(***************************************************************************)
(* Construction, lines 73-100 and 125-129.                                 *)
(***************************************************************************)
DefaultProps ==
    [autoSubscribes |-> <<>>, autoSubscribeLog |-> FALSE, doNotLoadAllObjects |-> TRUE,
     doNotLoadACL |-> TRUE, admin5only |-> FALSE, isWeb |-> FALSE, onObjectChange |-> FALSE]

InitConn(P) ==
    /\ props \in P
    /\ connected = FALSE
    /\ subscribed = FALSE
    /\ firstConnect = TRUE
    /\ waitForRestart = FALSE
    /\ loaded = FALSE
    /\ objects = NullObjects
    /\ states = EmptyMap
    /\ systemConfig = ""
    /\ statesSubscribes = <<>>
    /\ objectsSubscribes = <<>>
    /\ onConnectionHandlers = <<>>
    /\ promises = EmptyMap
    /\ outcomes = <<>>
    /\ acks = <<>>
    /\ conts = <<>>
    /\ waitResolved = FALSE
    /\ reloaded = FALSE
    /\ readyCalled = FALSE
    /\ wire = NoWire
    /\ lastConnection = [k \in Callbacks |-> ""]
    /\ hsTimers = 0
    /\ loadRuns = <<>>
    /\ notifQ = <<>>
    /\ progress = CONNECTING
    /\ out = <<>>
    /\ ret = NoRet
    /\ ev = "constructor"
    /\ link = "never"

InitWith(P) ==
    /\ InitConn(P)
    /\ mPattern = <<>>
    /\ mId = <<>>
    /\ mResult = NoResult

(***************************************************************************)
(* Application calls.                                                      *)
(***************************************************************************)
\* request({cacheKey: k, forceUpdate: force, requireFeatures: feats, ...})
CallRequest ==
    \E k \in Keys_, force \in BOOLEAN, feats \in {<<>>} \cup {<<f>> : f \in Features} :
        Api(Request(Cur, Opt("rpc", k, force, FALSE, feats, "")), "request")

\* the application sets or clears waitForRestart
CallSetWaitForRestart ==
    \E flag \in BOOLEAN : Api(SetWaitForRestart(Cur, flag), "waitForRestart")

\* request() with or without cacheKey and forceUpdate
CallAnyRequest ==
    \E k \in Keys_ \cup {""}, force \in BOOLEAN :
        Api(Request(Cur, Opt("rpc", k, force, FALSE, <<>>, "")), "request")

\* request() with a list of two required features
FeatureLists == {<<"f", "g">>}

CallFeatureRequest ==
    \E k \in Keys_, feats \in FeatureLists :
        Api(Request(Cur, Opt("rpc", k, FALSE, FALSE, feats, "")), "request")

CallGetSystemConfig ==
    \E update \in BOOLEAN : Api(RequestPlain(Cur, GetSystemConfigOpt(update)), "getSystemConfig")

CallSetSystemConfig ==
    \E obj \in Configs : Api(RequestPlain(Cur, SetSystemConfigOpt(obj)), "setSystemConfig")

\* cmdExec(host, cmd, cmdId, cmdTimeout), lines 1463-1483
CmdExecOpt == Timed(Opt("cmdExec", "", FALSE, FALSE, <<>>, "cmd"))

CallCmdExec == Api(RequestPlain(Cur, CmdExecOpt), "cmdExec")

\* request() with a timeout and an executor that settles on the
\* acknowledgement without clearing the timer ("rpc"), or never ("never")
CallTimedRequest(Ops) ==
    \E op \in Ops :
        Api(RequestPlain(Cur, Timed(Opt(op, "", FALSE, FALSE, <<>>, ""))), "request")

CallGetStates == Api(RequestPlain(Cur, GetStatesOpt), "getStates")

CallRegisterConnectionHandler ==
    \E cb \in Callbacks : Api(RegisterConnectionHandler(Cur, cb), "registerConnectionHandler")

CallUnregisterConnectionHandler ==
    \E cb \in Callbacks :
        Api(UnregisterConnectionHandler(Cur, cb), "unregisterConnectionHandler")

CallSubscribeState(P) ==
    \E id \in P, cb \in Callbacks : Api(SubscribeState(Cur, id, cb), "subscribeState")

CallUnsubscribeState(P) ==
    \E id \in P, cb \in Callbacks \cup {0} :
        Api(UnsubscribeState(Cur, id, cb), "unsubscribeState")

CallSubscribeObject(P) ==
    \E id \in P, cb \in Callbacks : Api(SubscribeObject(Cur, id, cb), "subscribeObject")

CallUnsubscribeObject(P) ==
    \E id \in P, cb \in Callbacks \cup {0} :
        Api(UnsubscribeObject(Cur, id, cb), "unsubscribeObject")

(***************************************************************************)
(* Continuations: the first one whose promise is settled runs.             *)
(***************************************************************************)
RunContinuation ==
    /\ MicrotaskReady
    /\ LET i == CHOOSE j \in 1..Len(conts) :
                    Runnable(conts[j]) /\ \A h \in 1..(j - 1) : ~Runnable(conts[h])
           c == conts[i]
           S == [Cur EXCEPT !.conts = RemoveAt(@, i)]
       IN  CASE c.kind = "feature" -> Step(ResumeRequest(S, c), "request:resume")
             [] c.kind = "boot" -> Step(BootThen(S, c), "onConnect:then")
             [] c.kind = "objects" -> Step(ObjectsThen(S, c), "getObjects:then")
             [] c.kind = "version" -> Step(VersionThen(S, c), "getVersion:then")
    /\ UNCHANGED link

(***************************************************************************)
(* Timers.                                                                 *)
(***************************************************************************)
SettleTimer == hsTimers > 0 /\ Task(OnSettled(Cur), "connect:timer")

\* the setTimeout of line 768 fires
RequestTimer ==
    \E p \in 1..Len(outcomes) :
        /\ outcomes[p].timer = "armed"
        /\ Task(OnRequestTimeout(Cur, p), "request:timeout")

LoadTimer == \E r \in 1..Len(loadRuns) : Task(LoadDataWake(Cur, r), "loadData:wake")

\* the setTimeout(..., 0) of lines 320-326: timers fire in the order set
Dispatch ==
    /\ notifQ # <<>>
    /\ LET n == Head(notifQ)
           S == [Cur EXCEPT !.notifQ = Tail(@)]
       IN  IF n.kind = "object" THEN Task(ObjectChange(S, n.id, n.obj), "objectChange")
           ELSE Task(StateChange(S, n.id), "stateChange")

(***************************************************************************)
(* Transport events, lines 228-326.  The transport delivers "connect" on  *)
(* every connection and "reconnect" on every connection but the first, in *)
(* either order, and "disconnect" when an established connection is lost. *)
(***************************************************************************)
\* "connect" with noTimeout === true: the handshake starts at once
SocketConnect ==
    /\ link \in {"never", "down", "upR"}
    /\ ~MicrotaskReady
    /\ Step(OnSocketConnect(Cur, TRUE), "connect")
    /\ link' = CASE link = "never" -> "upFirst"
                 [] link = "upR" -> "upCR"
                 [] OTHER -> "upC"

\* "connect" with any other noTimeout: the handshake starts after 500 ms
SocketConnectDelayed ==
    /\ link \in {"never", "down", "upR"}
    /\ ~MicrotaskReady
    /\ Step(OnSocketConnect(Cur, FALSE), "connect:delayed")
    /\ link' = CASE link = "never" -> "upFirst"
                 [] link = "upR" -> "upCR"
                 [] OTHER -> "upC"

SocketReconnect ==
    /\ link \in {"down", "upC"}
    /\ ~MicrotaskReady
    /\ Step(OnSocketReconnect(Cur), "reconnect")
    /\ link' = IF link = "upC" THEN "upCR" ELSE "upR"

\* the session ends: the backend forgets its subscriptions
SocketDisconnect ==
    /\ LinkUp
    /\ ~MicrotaskReady
    /\ Step(OnSocketDisconnect([Cur EXCEPT !.wire = NoWire]), "disconnect")
    /\ link' = "down"

SocketObjectChange(I, D) ==
    /\ LinkUp
    /\ \E id \in I, obj \in D :
          Task([Cur EXCEPT !.notifQ = Append(@, [kind |-> "object", id |-> id, obj |-> obj,
                                                 state |-> ""])],
               "on:objectChange")

SocketStateChange(I) ==
    /\ LinkUp
    /\ \E id \in I, state \in StateValues :
          Task([Cur EXCEPT !.notifQ = Append(@, [kind |-> "state", id |-> id, obj |-> NullDoc,
                                                 state |-> state])],
               "on:stateChange")

\* the acknowledgement callback of an emit is called with the backend's answer
AckHandler(S, a, res) ==
    CASE a.op = "authenticate" -> OnPreConnect(S, res = "ok")
      [] a.op = "getUserPermissions" -> AfterPermissions(S, res = "err")
      [] a.op = "getForeignStates" ->
            \* lines 557-566: cb is called for the states returned
            IF res = "ok" THEN [S EXCEPT !.out = Append(@, Eff("call", "state:initial", a.a, a.p))]
            ELSE S
      [] a.op = "cmdExec" ->
            \* lines 1474-1480: nothing after the timer elapsed; otherwise
            \* the timer is cleared and the promise settled
            IF S.outcomes[a.p].timer = "elapsed" THEN S
            ELSE LET S1 == [S EXCEPT !.outcomes[a.p].timer =
                                        IF @ = "armed" THEN "cleared" ELSE @]
                 IN  IF res = "err" THEN Settle(S1, a.p, "err", BACKEND_ERROR)
                     ELSE Settle(S1, a.p, "ok", "done")
      [] a.op = "getStates" ->
            \* lines 802-809: the mirror is replaced by the answer, {} when
            \* there is none
            LET S1 == [S EXCEPT !.states = IF res = "err" THEN EmptyMap
                                           ELSE MapSet(EmptyMap, <<"a">>, "s1")]
            IN  IF res = "err" THEN Settle(S1, a.p, "err", BACKEND_ERROR)
                ELSE Settle(S1, a.p, "ok", "states")
      [] a.op = "getVersion" ->
            \* lines 1689-1700
            IF res = "err" THEN Settle(S, a.p, "err", BACKEND_ERROR)
            ELSE Settle(S, a.p, "ok", res)
      [] a.op = "checkFeatureSupported" ->
            IF res = "err" THEN Settle(S, a.p, "err", BACKEND_ERROR)
            ELSE Settle(S, a.p, "ok", res)
      [] a.op = "getObjects" ->
            \* lines 912-918: the mirror is replaced by the answer, which is
            \* undefined when the backend reports an error
            LET S1 == OnProgress([S EXCEPT !.objects =
                                    IF res = "err" THEN NullObjects
                                    ELSE Mirror(MapSet(EmptyMap, SystemConfigId, Doc("cfg", 0)))],
                                 OBJECTS_LOADED)
            IN  IF res = "err" THEN Settle(S1, a.p, "err", BACKEND_ERROR)
                ELSE Settle(S1, a.p, "ok", "objects")
      [] a.op = "setSystemConfig" ->
            \* lines 1590-1593: setObject settled, the executor resolves with obj
            IF res = "err" THEN Settle(S, a.p, "err", BACKEND_ERROR)
            ELSE Settle(S, a.p, "ok", a.a[1])
      [] a.op \in {"getSystemConfig", "getCompactSystemConfig"} ->
            \* lines 1497-1502 and 1519-1525
            IF res = "err" THEN Settle(S, a.p, "err", BACKEND_ERROR)
            ELSE Settle(S, a.p, "ok", "cfg")
      [] OTHER ->
            IF res = "err" THEN Settle(S, a.p, "err", BACKEND_ERROR)
            ELSE Settle(S, a.p, "ok", "result")

Acknowledge ==
    /\ LinkUp
    /\ \E i \in 1..Len(acks) : \E res \in AckResults(acks[i].op) :
          Task(AckHandler([Cur EXCEPT !.acks = RemoveAt(@, i)], acks[i], res),
               "ack:" \o acks[i].op)


(***************************************************************************)
(* Specifications.                                                         *)
(***************************************************************************)
\* the transport with a handshake that starts at once; the retry timer of
\* loadData is left to the bootstrap specification
Session ==
    \/ SocketConnect
    \/ SocketReconnect
    \/ SocketDisconnect
    \/ Acknowledge
    \/ RunContinuation

\* the request coordinator under application calls
InitReq == InitWith({DefaultProps})

NextReq ==
    \/ CallRequest
    \/ Session

SpecReq == InitReq /\ [][NextReq]_vars

\* one system-configuration request after another
NextCfg ==
    \/ CallGetSystemConfig
    \/ CallSetSystemConfig
    \/ Session

SpecCfg == InitReq /\ [][NextCfg]_vars

\* the two subscription registries under subscribe and unsubscribe calls for
\* one pattern, with a client that may list that pattern in autoSubscribes
OnePattern == {<<"a">>}
OneId == {<<"a">>}

InitSub ==
    InitWith({[DefaultProps EXCEPT !.autoSubscribes = a] : a \in {<<>>, <<<<"a">>>>}})

NextSub ==
    \/ CallSubscribeState(OnePattern)
    \/ CallUnsubscribeState(OnePattern)
    \/ CallSubscribeObject(OnePattern)
    \/ CallUnsubscribeObject(OnePattern)
    \/ SocketObjectChange(OneId, {Doc("t1", 1)})
    \/ SocketStateChange(OneId)
    \/ Dispatch
    \/ Session

SpecSub == InitSub /\ [][NextSub]_vars

\* the gates of request() under connect and disconnect events
NextGate ==
    \/ CallAnyRequest
    \/ SocketConnect
    \/ SocketDisconnect
    \/ Acknowledge
    \/ RunContinuation

SpecGate == InitReq /\ [][NextGate]_vars

\* connection-state callbacks, registries and mirrors under the transport
NextConn ==
    \/ CallRegisterConnectionHandler
    \/ CallGetStates
    \/ CallSubscribeObject(OnePattern)
    \/ SocketConnect
    \/ SocketDisconnect
    \/ Acknowledge
    \/ RunContinuation

SpecConn == InitReq /\ [][NextConn]_vars

\* one session of a client constructed with autoSubscribes = [p] and default
\* options, without application calls, with a backend that sends object
\* changes; continuations run
InitAuto == InitWith({[DefaultProps EXCEPT !.autoSubscribes = <<p>>] : p \in Patterns})

NextAuto ==
    \/ SocketConnect
    \/ SocketObjectChange(Ids, Payloads)
    \/ Dispatch
    \/ Acknowledge
    \/ RunContinuation
    \/ LoadTimer

SpecAuto == InitAuto /\ [][NextAuto]_vars /\ WF_vars(RunContinuation)

\* the feature gate of request()
NextFeat ==
    \/ CallFeatureRequest
    \/ SocketConnect
    \/ SocketDisconnect
    \/ Acknowledge
    \/ RunContinuation

SpecFeat == InitReq /\ [][NextFeat]_vars

\* requests with a timeout whose executors settle on the acknowledgement
NextTime ==
    \/ CallCmdExec
    \/ CallTimedRequest({"rpc"})
    \/ RequestTimer
    \/ SocketConnect
    \/ SocketDisconnect
    \/ Acknowledge
    \/ RunContinuation

SpecTime == InitReq /\ [][NextTime]_vars

\* requests with a timeout whose executor never settles; timers elapse and
\* continuations run
NextNever ==
    \/ CallTimedRequest({"never"})
    \/ RequestTimer
    \/ Session

SpecNever == InitReq /\ [][NextNever]_vars /\ WF_vars(RequestTimer) /\ WF_vars(RunContinuation)

\* the two registries under subscribe and unsubscribe calls alone
NextReg ==
    \/ CallSubscribeState(OnePattern)
    \/ CallUnsubscribeState(OnePattern)
    \/ CallSubscribeObject(OnePattern)
    \/ CallUnsubscribeObject(OnePattern)
    \/ Session

SpecReg == InitSub /\ [][NextReg]_vars

\* the object registry and the object mirror under object change notifications
NextObj ==
    \/ CallSubscribeObject(Patterns)
    \/ CallUnsubscribeObject(Patterns)
    \/ SocketObjectChange(Ids, Payloads)
    \/ Dispatch
    \/ SocketConnect
    \/ SocketDisconnect
    \/ Acknowledge
    \/ RunContinuation

SpecObj == InitReq /\ [][NextObj]_vars

\* the object mirror of a client with props.onObjectChange under object
\* change notifications that differ in type and in revision
MirrorIds == {<<"a">>, <<"b">>}
MirrorPayloads == {NullDoc, Doc("t1", 0), Doc("t1", 1), Doc("t1", 2), Doc("t2", 1)}

InitMirror == InitWith({[DefaultProps EXCEPT !.onObjectChange = TRUE]})

NextMirror ==
    \/ SocketObjectChange(MirrorIds, MirrorPayloads)
    \/ Dispatch
    \/ SocketConnect
    \/ Acknowledge
    \/ RunContinuation

SpecMirror == InitMirror /\ [][NextMirror]_vars

\* handshakes and reconnects of a client whose application sets
\* waitForRestart, registers connection-state callbacks and subscribes
NextRestart ==
    \/ CallSetWaitForRestart
    \/ CallRegisterConnectionHandler
    \/ CallSubscribeObject(OnePattern)
    \/ Session

SpecRestart == InitSub /\ [][NextRestart]_vars

\* the connection lifecycle
Init ==
    InitWith({[DefaultProps EXCEPT !.doNotLoadAllObjects = b, !.doNotLoadACL = c] :
                b \in BOOLEAN, c \in BOOLEAN})

\* the handshake with both kinds of connect event
Next ==
    \/ SocketConnectDelayed
    \/ SettleTimer
    \/ Session

Spec == Init /\ [][Next]_vars

\* the bootstrap with the retry timer of loadData
NextBoot ==
    \/ LoadTimer
    \/ Session

SpecBoot == Init /\ [][NextBoot]_vars

\* the retry loop of loadData in one session: timers fire and continuations
\* run; the backend answers, so that the acknowledgements outstanding stay
\* within MaxAcks while the loop goes on
NextLoad ==
    \/ SocketConnect
    \/ Acknowledge
    \/ RunContinuation
    \/ LoadTimer

SpecLoad ==
    /\ Init /\ [][NextLoad]_vars
    /\ WF_vars(LoadTimer) /\ WF_vars(RunContinuation) /\ WF_vars(Acknowledge)

\* the two matchers on every pattern and identifier up to MaxLen characters
InitMatch ==
    /\ InitConn({DefaultProps})
    /\ mPattern \in SeqsUpTo(PatternChars, MaxLen) \ {<<>>}
    /\ mId \in SeqsUpTo(IdChars, MaxLen) \ {<<>>}
    /\ mResult = NoResult

\* the matcher of subscribeState(mPattern) and of subscribeObject(mPattern)
\* is compiled and applied to mId as stateChange and objectChange apply it
TestMatchers ==
    /\ ~mResult.tested
    /\ mResult' = [tested |-> TRUE,
                   state |-> RegTest(StateRegSource(mPattern), mId),
                   object |-> RegTest(ObjectRegSource(mPattern), mId)]
    /\ UNCHANGED <<mPattern, mId, connVars, link>>

NextMatch == TestMatchers

SpecMatch == InitMatch /\ [][NextMatch]_vars

(***************************************************************************)
(* Helpers of the properties.                                              *)
(***************************************************************************)
\* how often x occurs in the sequence s
Count(s, x) == Cardinality({i \in 1..Len(s) : s[i] = x})

NoDuplicates(s) == \A i, j \in 1..Len(s) : s[i] = s[j] => i = j

\* the callbacks a handler called for registry n, in call order
Called(o, n) ==
    LET idx == {i \in 1..Len(o) : o[i].t = "call" /\ o[i].n = n}
        RECURSIVE pick(_)
        pick(i) == IF i > Len(o) THEN <<>>
                   ELSE (IF i \in idx THEN <<o[i].k>> ELSE <<>>) \o pick(i + 1)
    IN  pick(1)

\* the values a handler reported through onProgress, in order
Reported(o) ==
    LET RECURSIVE pick(_)
        pick(i) == IF i > Len(o) THEN <<>>
                   ELSE (IF o[i].t = "progress" THEN <<o[i].k>> ELSE <<>>) \o pick(i + 1)
    IN  pick(1)

NonDecreasing(s) == \A i \in 1..(Len(s) - 1) : s[i] <= s[i + 1]

\* s occurs in t as a subsequence
RECURSIVE IsSubsequence(_, _)
IsSubsequence(s, t) ==
    IF s = <<>> THEN TRUE
    ELSE IF t = <<>> THEN FALSE
    ELSE IF Head(s) = Head(t) THEN IsSubsequence(Tail(s), Tail(t))
    ELSE IsSubsequence(s, Tail(t))

\* the entries of a registry that take a notification for id
Matching(registry, id, byId) ==
    {i \in 1..Len(registry) :
        (byId /\ registry[i].id = id) \/ RegTest(registry[i].reg, id)}

(***************************************************************************)
(* Properties.                                                             *)
(***************************************************************************)

\* C1: for every cache key, requests that do not force an update start at
\* most one executor: every promise created for a key after the first one
\* for that key comes from a call with forceUpdate.
C1_OneExecutorPerKey ==
    \A i, j \in 1..Len(outcomes) :
        (i < j /\ outcomes[i].key # "" /\ outcomes[i].key = outcomes[j].key)
            => outcomes[j].force

\* C2: a forced request is never answered from the cache, the executor it
\* starts is stored under its key, and a later request answered from the
\* cache gets the outcome of the latest forced request for that key.
C2_ForcedOutcomeReturned ==
    /\ ret.force => ret.how # "cached"
    /\ (ret.force /\ ret.how = "started" /\ ret.key # "")
          => (ret.p = Len(outcomes) /\ promises[ret.key] = ret.p)
    /\ (ret.how = "cached" /\ \E i \in 1..Len(outcomes) :
                                  outcomes[i].key = ret.key /\ outcomes[i].force)
          => /\ outcomes[ret.p].force
             /\ \A i \in 1..Len(outcomes) :
                   (outcomes[i].key = ret.key /\ outcomes[i].force) => i <= ret.p

\* C3: setSystemConfig(obj) called while connected starts its executor,
\* which emits setObject with obj, and the outcome it returns is the
\* outcome of that executor.
C3_SetSystemConfigEmits ==
    (ev = "setSystemConfig" /\ connected)
        => /\ ret.how = "started"
           /\ Count(out, Emit("setObject", <<ret.arg>>)) = 1
           /\ outcomes[ret.p].op = "setSystemConfig"
           /\ outcomes[ret.p].arg = ret.arg

\* C4: when the 500 ms timer of a delayed connect event fires the version
\* is queried, so the handshake goes on to onPreConnect: getVersion() is
\* not rejected.
C4_VersionQueried ==
    ev = "connect:timer" => ret.how # "rejected"

\* C6: no registry holds an entry with an empty callback list.
C6_NoEmptyEntry ==
    /\ \A i \in 1..Len(statesSubscribes) : Len(statesSubscribes[i].cbs) > 0
    /\ \A i \in 1..Len(objectsSubscribes) : Len(objectsSubscribes[i].cbs) > 0

\* C9: for a pattern without "*" the matcher of subscribeState and the
\* matcher of subscribeObject accept an identifier exactly when the
\* identifier equals the pattern.
C9_ExactMatch ==
    (mResult.tested /\ ~Includes(mPattern, "*"))
        => /\ mResult.state = (mId = mPattern)
           /\ mResult.object = (mId = mPattern)

\* the subscriptions a new connection epoch must carry: the second or a
\* later session of the transport
Reconnected(l) == l \in {"upC", "upR", "upCR"}

\* every callback is called as often as matching entries hold it
CalledOncePerEntry(o, n, registry, id, byId) ==
    LET M == Matching(registry, id, byId)
        calls == Called(o, n)
    IN  /\ \A k \in Callbacks :
              Count(calls, k) = Cardinality({i \in M : IndexOf(registry[i].cbs, k) # 0})
        /\ \A i \in M : IsSubsequence(registry[i].cbs, calls)

\* C5: in a session after a disconnect, the step that arms the subscriptions
\* emits the wire subscribe of every registered state pattern and object
\* pattern exactly once (an object pattern once more for each time the
\* autoSubscribes list names it), a handshake step of an armed client emits
\* none, and a change dispatched to the re-armed client calls each callback
\* of a matching entry exactly once.
C5_RearmedOnce ==
    [][ /\ (Reconnected(link') /\ ~subscribed /\ subscribed')
              => /\ \A i \in 1..Len(statesSubscribes') :
                       Count(out', Emit("subscribe", statesSubscribes'[i].id)) = 1
                 /\ \A i \in 1..Len(objectsSubscribes') :
                       Count(out', Emit("subscribeObjects", objectsSubscribes'[i].id))
                          = 1 + Count(props.autoSubscribes, objectsSubscribes'[i].id)
        /\ (Reconnected(link') /\ subscribed /\ subscribed'
               /\ ev' \in {"connect", "reconnect", "ack:authenticate"})
              => \A i \in 1..Len(out') :
                    ~(out'[i].t = "emit" /\ out'[i].n \in {"subscribe", "subscribeObjects"})
        /\ (Reconnected(link) /\ subscribed /\ notifQ # <<>> /\ ev' = "objectChange")
              => CalledOncePerEntry(out', "object", objectsSubscribes,
                                    Head(notifQ).id, TRUE)
        /\ (Reconnected(link) /\ subscribed /\ notifQ # <<>> /\ ev' = "stateChange")
              => CalledOncePerEntry(out', "state", statesSubscribes,
                                    Head(notifQ).id, FALSE)
      ]_vars

\* C7: no callback list holds a callback twice, and in a step that leaves
\* the client connected the wire subscribe of a pattern is emitted once when
\* the step creates the pattern's entry and not at all when the entry
\* existed before the step.
C7_SubscribeIdempotent ==
    [][ /\ \A i \in 1..Len(statesSubscribes') : NoDuplicates(statesSubscribes'[i].cbs)
        /\ \A i \in 1..Len(objectsSubscribes') : NoDuplicates(objectsSubscribes'[i].cbs)
        /\ (connected /\ connected')
              => /\ \A i \in 1..Len(statesSubscribes') :
                       LET p == statesSubscribes'[i].id
                       IN  Count(out', Emit("subscribe", p))
                              = IF Find(statesSubscribes, p) = 0 THEN 1 ELSE 0
                 /\ \A i \in 1..Len(objectsSubscribes') :
                       LET p == objectsSubscribes'[i].id
                       IN  Count(out', Emit("subscribeObjects", p))
                              = IF Find(objectsSubscribes, p) = 0 THEN 1 ELSE 0
      ]_vars

\* C7 witness: a connected client took a second callback for an object
\* pattern that had an entry, and emitted nothing
C7_Witness ==
    /\ ev = "subscribeObject"
    /\ connected
    /\ out = <<>>
    /\ \E i \in 1..Len(objectsSubscribes) : Len(objectsSubscribes[i].cbs) = 2

\* C8: when an object-change notification is dispatched, every callback of
\* every object-registry entry whose pattern equals the identifier or whose
\* matcher accepts it is called exactly once, in the entry's registration
\* order, and no other callback is called.
C8_ObjectFanOut ==
    [][ (notifQ # <<>> /\ ev' = "objectChange" /\ notifQ' = Tail(notifQ))
            => CalledOncePerEntry(out', "object", objectsSubscribes,
                                  Head(notifQ).id, TRUE)
      ]_vars

\* C10: between two disconnect events the values handed to onProgress never
\* decrease: a handler other than the disconnect handler reports values that
\* are at least the last reported value and in non-decreasing order.
C10_MonotonicProgress ==
    [][ ev' # "disconnect" => NonDecreasing(<<progress>> \o Reported(out')) ]_vars

\* promise p was rejected with Timeout
TimedOut(o, p) == o[p].st = "err" /\ o[p].val = TIMEOUT

\* the timer of promise p elapses in this step
Elapses(p) ==
    IF p <= Len(outcomes)
    THEN outcomes[p].timer = "armed" /\ outcomes'[p].timer = "elapsed"
    ELSE FALSE

\* C11: onTimeout is called once in the step in which the timer of a request
\* elapses, which rejects the pending request, and in no other step; and
\* every request with a timer whose executor never settles and never clears
\* the timer is eventually rejected with Timeout: again and again all such
\* requests made so far have timed out.
C11_TimeoutRejects ==
    /\ [][ \A p \in 1..Len(outcomes') :
              /\ Count(out', Eff("call", "onTimeout", <<>>, p))
                    = IF Elapses(p) THEN 1 ELSE 0
              /\ (Elapses(p) /\ outcomes[p].st = "pending") => TimedOut(outcomes', p)
         ]_vars
    /\ []<>(\A p \in 1..Len(outcomes) :
                (outcomes[p].op = "never" /\ outcomes[p].timer # "none")
                    => (outcomes[p].timer = "elapsed" /\ TimedOut(outcomes, p)))

\* C11 witness: the timer of a request that never settles elapsed
C11_Witness ==
    /\ ev = "request:timeout"
    /\ \E p \in 1..Len(outcomes) :
          /\ outcomes[p].op = "never"
          /\ outcomes[p].timer = "elapsed"
          /\ TimedOut(outcomes, p)
          /\ out = <<Eff("call", "onTimeout", <<>>, p)>>

Acked(p) == \E i \in 1..Len(acks) : acks[i].p = p /\ acks' = RemoveAt(acks, i)

CacheHit(k, force) == k # "" /\ ~force /\ k \in DOMAIN promises

\* C13: a request() call without forceUpdate whose cacheKey has an entry
\* returns that entry, connected or not; a call rejected with NotConnected
\* was made while disconnected and was not answered from the cache.
C13_CacheBeforeConnection ==
    [][ ev' = "request"
           => /\ CacheHit(ret'.key, ret'.force)
                    => (ret'.how = "cached" /\ ret'.p = promises[ret'.key])
              /\ (ret'.how = "rejected" /\ ret'.err = NOT_CONNECTED)
                    => (~connected /\ ~CacheHit(ret'.key, ret'.force))
      ]_vars

\* C13 witness: a disconnected client answered a request from the cache
C13_Witness ==
    /\ ev = "request"
    /\ ~connected
    /\ ret.how = "cached"
    /\ ret.p = promises[ret.key]

\* C14: a request() call made while disconnected that is not answered from
\* the cache is rejected with NotConnected; it starts no executor, arms no
\* timer, emits nothing and leaves the cache as it was.
C14_RejectedWhenDisconnected ==
    [][ (ev' = "request" /\ ~connected /\ ~CacheHit(ret'.key, ret'.force))
           => /\ ret'.how = "rejected"
              /\ ret'.err = NOT_CONNECTED
              /\ out' = <<>>
              /\ outcomes' = outcomes
              /\ promises' = promises
              /\ acks' = acks
              /\ conts' = conts
      ]_vars

\* C14 witness: a forced request for a key with an entry was rejected while
\* disconnected, and the entry is in place
C14_Witness ==
    /\ ev = "request"
    /\ ~connected
    /\ ret.force
    /\ ret.how = "rejected"
    /\ ret.err = NOT_CONNECTED
    /\ ret.key \in DOMAIN promises

\* the continuation that runs next
NextCont ==
    conts[CHOOSE j \in 1..Len(conts) :
             Runnable(conts[j]) /\ \A h \in 1..(j - 1) : ~Runnable(conts[h])]

\* the check of feature f is what the handler waits for at the end of the
\* step: the continuation it left waits for the promise stored under the
\* feature's cache key, and the handler emitted nothing but, when that
\* promise is new, the check of f
ChecksFeature(f, i) ==
    /\ ret'.how = "suspended"
    /\ Len(conts') > 0
    /\ LET c == conts'[Len(conts')]
       IN  /\ c.kind = "feature"
           /\ c.i = i
           /\ IF c.on = 0 THEN ~connected
              ELSE /\ promises'[FeatureKey(f)] = c.on
                   /\ outcomes'[c.on].op = "checkFeatureSupported"
                   /\ outcomes'[c.on].arg = f
                   /\ out' = IF c.on > Len(outcomes)
                             THEN <<Emit("checkFeatureSupported", <<f>>)>> ELSE <<>>

\* C15: a connected request() call with requireFeatures checks the first
\* feature through checkFeatureSupported and suspends; when the check of
\* feature i reports the feature supported the next feature of the list is
\* checked in the same way, and when it reports it unsupported the request is
\* rejected with NotSupported, checks no further feature, starts no executor
\* and stores nothing in the cache.
C15_FeatureGate ==
    [][ /\ (ev' = "request" /\ connected /\ ~CacheHit(ret'.key, ret'.force))
              => \E feats \in FeatureLists : ChecksFeature(feats[1], 1)
        /\ (ev' = "request:resume" /\ NextCont.on # 0)
              => LET c == NextCont
                     o == outcomes[c.on]
                 IN  /\ (o.st = "ok" /\ o.val # "yes")
                           => /\ ret'.how = "rejected"
                              /\ ret'.err = NOT_SUPPORTED
                              /\ out' = <<>>
                              /\ outcomes' = outcomes
                              /\ promises' = promises
                              /\ acks' = acks
                              /\ Len(conts') = Len(conts) - 1
                     /\ (o.st = "ok" /\ o.val = "yes" /\ c.i < Len(c.opt.feats))
                           => ChecksFeature(c.opt.feats[c.i + 1], c.i + 1)
                     /\ (o.st = "ok" /\ o.val = "yes" /\ c.i = Len(c.opt.feats))
                           => ret'.how = "started"
      ]_vars

\* C15 witness: the first feature of a list of two was reported unsupported
\* and the request was rejected; the second feature was never checked
C15_Witness ==
    /\ ev = "request:resume"
    /\ ret.how = "rejected"
    /\ ret.err = NOT_SUPPORTED
    /\ FeatureKey("f") \in DOMAIN promises
    /\ FeatureKey("g") \notin DOMAIN promises
    /\ "k" \notin DOMAIN promises

\* the resolver of the first-connection promise was called
FirstConnectionResolved == Eff("resolve", "waitForFirstConnection", <<>>, 0)

\* C16: the first-connection promise is resolved in the first step that runs
\* onPreConnect, by one call of its resolver, and in no step before; once
\* resolved it stays resolved and no later handshake or reconnect event
\* calls the resolver again.
C16_FirstConnectionOnce ==
    [][ /\ waitResolved => waitResolved'
        /\ Count(out', FirstConnectionResolved)
              = IF ~waitResolved /\ waitResolved' THEN 1 ELSE 0
        /\ (~waitResolved /\ waitResolved')
              => (ev' \in {"ack:authenticate", "getVersion:then"} /\ connected')
        /\ ev' = "ack:authenticate" => waitResolved'
      ]_vars

\* C16 witness: a handshake completed on a client whose first-connection
\* promise was resolved by an earlier handshake
C16_Witness ==
    /\ ev = "ack:authenticate"
    /\ waitResolved
    /\ Count(out, FirstConnectionResolved) = 0

\* C17: the disconnect handler clears connected and subscribed, reports
\* CONNECTING, calls every registered connection-state callback once with
\* false in registration order and does nothing else; the registries, the
\* cache, the mirrors, the loaded and firstConnect flags and the list of
\* connection-state callbacks are as before.
C17_DisconnectFrame ==
    [][ ev' = "disconnect"
           => /\ ~connected'
              /\ ~subscribed'
              /\ progress' = CONNECTING
              /\ Reported(out') = <<CONNECTING>>
              /\ Called(out', "connection:false") = onConnectionHandlers
              /\ Len(out') = 1 + Len(onConnectionHandlers)
              /\ UNCHANGED <<statesSubscribes, objectsSubscribes, promises, outcomes,
                             objects, states, loaded, firstConnect, onConnectionHandlers,
                             systemConfig>>
      ]_vars

\* C17 witness: a client with two connection-state callbacks, a
\* subscription, a cache entry, both mirrors and a finished bootstrap was
\* disconnected
C17_Witness ==
    /\ ev = "disconnect"
    /\ Len(onConnectionHandlers) = 2
    /\ objectsSubscribes # <<>>
    /\ DOMAIN promises # {}
    /\ ~objects.isNull
    /\ states # EmptyMap
    /\ loaded

\* the wire subscribes a handler emitted, in order
WireSubscribes(o) ==
    LET RECURSIVE pick(_)
        pick(i) == IF i > Len(o) THEN <<>>
                   ELSE (IF o[i].t = "emit"
                            /\ o[i].n \in {"subscribe", "subscribeObjects", "requireLog"}
                         THEN <<o[i]>> ELSE <<>>) \o pick(i + 1)
    IN  pick(1)

\* the system configuration was answered successfully
ConfigAnswered ==
    \E p \in 1..Len(outcomes) :
        outcomes[p].op = "getSystemConfig" /\ outcomes[p].st = "ok"

\* C18: for a client constructed with autoSubscribes = [p] and default
\* options, the step that completes the handshake emits subscribeObjects for
\* p once and no other wire subscribe, no other step of the session emits a
\* wire subscribe, a step that reports READY calls the ready callback right
\* after it, and once the system configuration is answered successfully
\* READY is eventually reported.
C18_AutoSubscribeThenReady ==
    /\ [][ /\ WireSubscribes(out')
                 = IF ~subscribed /\ subscribed'
                   THEN <<Emit("subscribeObjects", props.autoSubscribes[1])>> ELSE <<>>
           /\ ev' = "ack:authenticate" => (connected' /\ subscribed')
           /\ \A i \in 1..Len(out') :
                 (out'[i].t = "progress" /\ out'[i].k = READY)
                    => (i < Len(out') /\ out'[i + 1] = Eff("ready", "onReady", <<>>, 0))
         ]_vars
    /\ ConfigAnswered ~> (progress = READY /\ loaded)

\* C18 witness: the bootstrap of a client with one autoSubscribes pattern
\* reported READY and called the ready callback
C18_Witness ==
    /\ ev = "onConnect:then"
    /\ subscribed
    /\ Len(out) >= 2
    /\ out[Len(out) - 1] = Eff("progress", "onProgress", <<>>, READY)
    /\ out[Len(out)] = Eff("ready", "onReady", <<>>, 0)

\* C19: a handler reports READY only when the bootstrap has completed: the
\* loaded flag is set and the system configuration has been received.
C19_ReadyAfterBootstrap ==
    [][ (\E i \in 1..Len(out') : out'[i].t = "progress" /\ out'[i].k = READY)
           => (loaded' /\ systemConfig' # "")
      ]_vars

\* the ready callback was called
ReadyCall == Eff("ready", "onReady", <<>>, 0)

\* C20: over the lifetime of the client, with overlapping loadData runs and
\* late responses, the bootstrap body runs at most once: loaded never returns
\* to false and firstConnect never returns to true, firstConnect changes
\* only in the step that sets loaded, CONNECTED is reported once in that
\* step and in no other step, and a step calls the ready callback at most
\* once and only when it had not been called before.
C20_BootstrapOnce ==
    [][ /\ loaded => loaded'
        /\ firstConnect' => firstConnect
        /\ (firstConnect /\ ~firstConnect') <=> (~loaded /\ loaded')
        /\ Count(Reported(out'), CONNECTED) = IF ~loaded /\ loaded' THEN 1 ELSE 0
        /\ Count(out', ReadyCall) = IF ~readyCalled /\ readyCalled' THEN 1 ELSE 0
        /\ readyCalled => readyCalled'
      ]_vars

\* C20 witness: two loadData runs overlap, the bootstrap body has run and
\* called the ready callback, and the continuation of the other run is
\* stopped by the loaded flag
C20_Witness ==
    /\ ev = "onConnect:then"
    /\ out = <<>>
    /\ loaded
    /\ ~firstConnect
    /\ readyCalled
    /\ Len(loadRuns) = 2

\* how often the step invoked the bootstrap step onConnect: each invocation
\* emits getUserPermissions or, without ACL, attaches one continuation to
\* the read of the system configuration
BootSteps ==
    IF props.doNotLoadACL THEN Len(conts') - Len(conts)
    ELSE Count(out', Emit("getUserPermissions", <<>>))

DispatchesObject ==
    /\ notifQ # <<>>
    /\ Head(notifQ).kind = "object"
    /\ ev' = "objectChange"
    /\ notifQ' = Tail(notifQ)
    /\ ~objects.isNull

\* the stored object differs from the payload, or the object is removed
Differs(m, id, obj) ==
    IF obj = NullDoc THEN id \in DOMAIN m
    ELSE IF id \in DOMAIN m THEN m[id] # obj ELSE TRUE

\* C22: a subscriber callback of an object-change notification gets a
\* previous summary only when the notification changed the mirrored object:
\* the stored object differs from the payload or the object was removed.
C22_OldObjOnlyOnChange ==
    [][ DispatchesObject
           => \A i \in 1..Len(out') :
                 (out'[i].t = "call" /\ out'[i].n = "object" /\ out'[i].x # "")
                    => Differs(objects.m, Head(notifQ).id, Head(notifQ).obj)
      ]_vars

\* the entry of id is not the same in the mirrors m and n
EntryChanged(m, n, id) ==
    IF id \in DOMAIN m /\ id \in DOMAIN n THEN m[id] # n[id]
    ELSE (id \in DOMAIN m) # (id \in DOMAIN n)

\* C23: after an object-change notification (id, obj) is dispatched to a
\* client with a mirror, the entry of id equals obj when obj is not null
\* and is absent when obj is null, all other entries are unchanged, and
\* props.onObjectChange is called once if the entry of id changed and not
\* at all if it did not.
C23_MirrorReplaced ==
    [][ DispatchesObject
           => LET id == Head(notifQ).id
                  obj == Head(notifQ).obj
                  m == objects.m
                  n == objects'.m
              IN  /\ ~objects'.isNull
                  /\ IF obj = NullDoc THEN id \notin DOMAIN n
                     ELSE id \in DOMAIN n /\ n[id] = obj
                  /\ \A o \in (DOMAIN m \cup DOMAIN n) \ {id} : ~EntryChanged(m, n, o)
                  /\ Count(out', Eff("call", "onObjectChange", id, 0))
                        = IF props.onObjectChange /\ EntryChanged(m, n, id) THEN 1 ELSE 0
      ]_vars

\* C24: after a state-change notification (id, state) is dispatched, the
\* state mirror holds state as its entry for id.
C24_StateMirrored ==
    [][ (/\ notifQ # <<>>
         /\ Head(notifQ).kind = "state"
         /\ ev' = "stateChange"
         /\ notifQ' = Tail(notifQ))
           => /\ Head(notifQ).id \in DOMAIN states'
              /\ states'[Head(notifQ).id] = Head(notifQ).state
      ]_vars

\* no subscriber callback is called in the sequence of effects o
NoSubscriberCalled(o) ==
    \A i \in 1..Len(o) : ~(o[i].t = "call" /\ o[i].n \in {"object", "state"})

\* C25: the transport's handler of a change notification calls no
\* subscriber callback and puts the notification at the end of the queue;
\* the queue loses notifications only at its head, one per delivery; and
\* the delivery of a notification calls the callbacks of the entries that
\* match in the registries as they are when it is delivered, each once.
C25_DeferredInOrder ==
    [][ /\ ev' \in {"on:objectChange", "on:stateChange"}
              => /\ NoSubscriberCalled(out')
                 /\ Len(notifQ') = Len(notifQ) + 1
                 /\ SubSeq(notifQ', 1, Len(notifQ)) = notifQ
                 /\ notifQ'[Len(notifQ')].kind = IF ev' = "on:objectChange" THEN "object"
                                                ELSE "state"
        /\ ev' \notin {"on:objectChange", "on:stateChange", "objectChange", "stateChange"}
              => (notifQ' = notifQ /\ NoSubscriberCalled(out'))
        /\ ev' \in {"objectChange", "stateChange"}
              => /\ notifQ # <<>>
                 /\ notifQ' = Tail(notifQ)
                 /\ IF Head(notifQ).kind = "object"
                    THEN /\ ev' = "objectChange"
                         /\ CalledOncePerEntry(out', "object", objectsSubscribes,
                                               Head(notifQ).id, TRUE)
                         /\ Called(out', "state") = <<>>
                    ELSE /\ ev' = "stateChange"
                         /\ CalledOncePerEntry(out', "state", statesSubscribes,
                                               Head(notifQ).id, FALSE)
                         /\ Called(out', "object") = <<>>
      ]_vars

\* callback k is subscribed to state pattern p
SubscribedTo(registry, p, k) ==
    \E e \in 1..Len(registry) : registry[e].id = p /\ IndexOf(registry[e].cbs, k) # 0

\* C28: a state callback is invoked only while it is subscribed: a change
\* notification calls only callbacks that some entry of the state registry
\* holds, and the acknowledgement of the initial-value read of
\* subscribeState(p, cb) calls cb only while cb is subscribed to p.
C28_NoCallAfterUnsubscribe ==
    [][ \A i \in 1..Len(out') :
           /\ (out'[i].t = "call" /\ out'[i].n = "state")
                 => \E e \in 1..Len(statesSubscribes) :
                       IndexOf(statesSubscribes[e].cbs, out'[i].k) # 0
           /\ (out'[i].t = "call" /\ out'[i].n = "state:initial")
                 => SubscribedTo(statesSubscribes, out'[i].a, out'[i].k)
      ]_vars

\* the call stored under cache key k ended in failure
FailureStored(k) ==
    IF k \in DOMAIN promises THEN outcomes[promises[k]].st = "err" ELSE FALSE

\* C27: a request without forceUpdate made while connected for a cache key
\* whose stored call ended in failure is not answered with the stored
\* failure: it starts a new executor, after the feature check when it
\* requires features.  This covers the reads of the system configuration
\* that the bootstrap retries make.
C27_FailureNotCached ==
    [][ (ret'.key # "" /\ ~ret'.force /\ connected /\ FailureStored(ret'.key))
           => ret'.how \in {"started", "suspended"}
      ]_vars

\* this step is the acknowledgement of authenticate with the answer res
AuthenticateAnswered(res) ==
    \E i \in 1..Len(acks) :
       /\ acks[i].op = "authenticate"
       /\ Task(AckHandler([Cur EXCEPT !.acks = RemoveAt(@, i)], acks[i], res),
               "ack:authenticate")

\* C29: an authenticate acknowledgement with isOk false leaves the client
\* as connected as it was, arms no subscriptions and starts no bootstrap:
\* connected becomes true through the handshake only when the
\* acknowledgement reports success or the legacy-version path is taken.
C29_AuthenticatedOnly ==
    [][ AuthenticateAnswered("notOk")
           => /\ connected' = connected
              /\ subscribed' = subscribed
              /\ loadRuns' = loadRuns
              /\ \A i \in 1..Len(out') : out'[i].t # "emit"
      ]_vars

\* window.location.reload() was called
Reload == Eff("reload", "window.location.reload", <<>>, 0)

\* the positions in o of the calls of connection-state callbacks with flag true
ConnectionCalls(o) == {i \in 1..Len(o) : o[i].t = "call" /\ o[i].n = "connection:true"}

\* the wire subscribes of every registered pattern: autoSubscribes, the
\* object registry, the log, the state registry
Rearmed ==
    LET o1 == EmitEach(<<>>, "subscribeObjects", props.autoSubscribes)
        o2 == EmitEach(o1, "subscribeObjects", Keys(objectsSubscribes))
        o3 == IF props.autoSubscribeLog THEN Append(o2, Emit("requireLog", <<"true">>)) ELSE o2
    IN  EmitEach(o3, "subscribe", Keys(statesSubscribes))

\* a handshake completes or the transport reconnects in this step
Reconnects == ev' \in {"ack:authenticate", "reconnect"}

\* C26 as stated: with waitForRestart set, a handshake completion or a
\* reconnect event reloads the page and does nothing else observable.
C26_ReloadOnly ==
    [][ (Reconnects /\ waitForRestart) => out' = <<Reload>> ]_vars

\* C26 amended: with waitForRestart set, a handshake completion or a
\* reconnect event sets connected and reloads the page once, emits nothing
\* on the wire, leaves subscribed as it is, starts no bootstrap and calls no
\* connection-state callback; besides the reload the reconnect handler only
\* reports READY and the handshake completion only resolves the
\* first-connection promise.  With waitForRestart unset a handshake
\* completion arms the subscriptions and then calls every registered
\* connection-state callback with true, in registration order.
C26_RestartReloads ==
    [][ Reconnects
           => IF waitForRestart
              THEN /\ connected' /\ reloaded'
                   /\ Count(out', Reload) = 1
                   /\ subscribed' = subscribed
                   /\ loadRuns' = loadRuns /\ conts' = conts
                   /\ Len(acks') <= Len(acks)
                   /\ \A i \in 1..Len(out') :
                         \/ out'[i] = Reload
                         \/ ev' = "reconnect" /\ out'[i] = Eff("progress", "onProgress", <<>>, READY)
                         \/ ev' = "ack:authenticate" /\ out'[i] = FirstConnectionResolved
              ELSE ev' = "ack:authenticate"
                      => /\ connected' /\ subscribed' /\ ~reloaded'
                         /\ ~subscribed => WireSubscribes(out') = Rearmed
                         /\ Called(out', "connection:true") = onConnectionHandlers
                         /\ \A i \in 1..Len(out') : \A j \in ConnectionCalls(out') :
                               out'[i].t = "emit" /\ out'[i].n \in {"subscribe", "subscribeObjects"}
                                  => i < j
      ]_vars

\* C26 witness: a handshake completed with waitForRestart set on a client
\* with a registered pattern and a connection-state callback: the page was
\* reloaded and nothing was subscribed
C26_Witness ==
    /\ ev = "ack:authenticate"
    /\ waitForRestart
    /\ reloaded
    /\ ~subscribed
    /\ objectsSubscribes # <<>>
    /\ onConnectionHandlers # <<>>

C31_WireMatchesRegistry ==
    (connected /\ subscribed)
        => wire.states = {statesSubscribes[i].id : i \in 1..Len(statesSubscribes)}

\* C31 witness: in a session after a disconnect the client is connected and
\* subscribed again and a state pattern was unsubscribed on the wire
C31_Witness ==
    /\ ev = "unsubscribeState"
    /\ Reconnected(link)
    /\ connected /\ subscribed
    /\ out = <<Emit("unsubscribe", <<"a">>)>>
    /\ wire.states = {}

\* C32: while the client is connected and subscribed, every pattern of
\* autoSubscribes has a net active wire object subscription: the last wire
\* message for it in this session is a subscribeObjects.
C32_AutoSubscribesKept ==
    (connected /\ subscribed)
        => \A i \in 1..Len(props.autoSubscribes) : props.autoSubscribes[i] \in wire.objects

\* the value the connection-state callback k saw last before position i of
\* the effects o of a step
PreviousConnection(o, i, k) == ConnectionAfter(lastConnection, SubSeq(o, 1, i - 1))[k]

\* C33: a connection-state callback is never invoked with true twice without
\* an invocation with false in between, whatever the order of the reconnect
\* event, the connect event and the authenticate acknowledgement.
C33_AlternatingConnection ==
    [][ \A i \in 1..Len(out') :
           (out'[i].t = "call" /\ out'[i].n = "connection:true")
               => PreviousConnection(out', i, out'[i].k) # "connection:true"
      ]_vars

\* C34: onTimeout is invoked only for a call whose outcome is Timeout: a call
\* that the executor fulfilled or rejected before the timer elapsed never
\* has onTimeout invoked, whether or not the executor cleared the timer.
C34_OnTimeoutOnlyOnTimeout ==
    [][ \A p \in 1..Len(outcomes') :
           Count(out', Eff("call", "onTimeout", <<>>, p)) > 0 => TimedOut(outcomes', p)
      ]_vars

=============================================================================
